---- MODULE Spec2Model ----
(***************************************************************************)
(* A model of the hand-and-foot rules engine of src/src/main.rs: the card  *)
(* model, Deck, PlayerCards (can_play, play, can_play_rank, play_rank) and *)
(* Game (deal, resolve_red_threes, draw, pickup, take_turn).               *)
(***************************************************************************)
EXTENDS Integers, Sequences, FiniteSets, TLC

(***************************************************************************)
(* Card model.                                                             *)
(***************************************************************************)

\* enum Round
Round == {"One", "Two", "Three", "Four"}

\* Round::meld
Meld(round) ==
    CASE round = "One" -> 90
      [] round = "Two" -> 120
      [] round = "Three" -> 150
      [] round = "Four" -> 180

\* enum Rank, in declaration order (the order Rank::iter yields)
RankSeq ==
    << "Three", "Four", "Five", "Six", "Seven", "Eight", "Nine", "Ten",
       "Jack", "Queen", "King", "Ace", "Two" >>

Rank == { RankSeq[i] : i \in 1..Len(RankSeq) }

\* enum Suit, in declaration order
SuitSeq == << "Diamond", "Club", "Heart", "Spade" >>

Suit == { SuitSeq[i] : i \in 1..Len(SuitSeq) }

\* Suit::color
color(suit) == IF suit \in {"Heart", "Diamond"} THEN "Red" ELSE "Black"

\* Rank::points
RankPoints(r) ==
    CASE r \in {"Ace", "Two"} -> 20
      [] r = "Three" -> 0
      [] r \in {"Four", "Five", "Six", "Seven"} -> 5
      [] r \in {"Eight", "Nine", "Ten", "Jack", "Queen", "King"} -> 10

\* enum Card: Card::Regular(rank, suit) and Card::Joker
Regular(r, s) == [rank |-> r, suit |-> s]

Joker == [rank |-> "Joker", suit |-> "Joker"]

\* the red Three test of Card::points and of resolve_red_threes
IsRedThree(c) == c # Joker /\ c.rank = "Three" /\ color(c.suit) = "Red"

\* Card::points
Points(c) ==
    IF IsRedThree(c) THEN 100
    ELSE IF c = Joker THEN 50
    ELSE RankPoints(c.rank)

\* Card::is_wild
is_wild(c) == c = Joker \/ c.rank = "Two"

\* Card::can_be_booked
can_be_booked(c) == ~ (c = Joker \/ c.rank \in {"Three", "Two"})

\* Card::rank : Option<Rank>, None for the Joker
NoRank == "None"

rank_of(c) == IF c = Joker THEN NoRank ELSE c.rank

\* Card::iter : 13 ranks x 4 suits in iproduct order, then two Jokers
CardIter ==
    [ i \in 1..(Len(RankSeq) * Len(SuitSeq)) |->
        Regular(RankSeq[((i - 1) \div Len(SuitSeq)) + 1],
                SuitSeq[((i - 1) % Len(SuitSeq)) + 1]) ]
    \o << Joker, Joker >>

(***************************************************************************)
(* Sequence helpers standing for Vec operations.                           *)
(***************************************************************************)

\* number of occurrences of a card in a sequence
CountOf(s, c) == Cardinality({ i \in 1..Len(s) : s[i] = c })

\* iter().position(|c| *c == card): first index holding card, 0 when absent
Position(s, card) ==
    LET hits == { i \in 1..Len(s) : s[i] = card }
    IN  IF hits = {} THEN 0 ELSE CHOOSE i \in hits : \A j \in hits : i <= j

\* Vec::remove(i)
RemoveAt(s, i) == SubSeq(s, 1, i - 1) \o SubSeq(s, i + 1, Len(s))

\* the subsequence of s at the indices of keep
Subsequence(s, keep) ==
    [ n \in 1..Cardinality(keep) |->
        s[CHOOSE i \in keep : Cardinality({ j \in keep : j <= i }) = n] ]

\* hand.remove(position(card)) for every card of cards in turn: the first
\* occurrences of each card leave the hand, as many as cards names
RemoveAll(hand, cards) ==
    Subsequence(hand,
        { i \in 1..Len(hand) :
            Cardinality({ j \in 1..i : hand[j] = hand[i] }) > CountOf(cards, hand[i]) })

\* sum of the points of a sequence of cards
RECURSIVE SumPoints(_)
SumPoints(s) == IF s = << >> THEN 0 ELSE Points(Head(s)) + SumPoints(Tail(s))

\* number of wild cards of a sequence
RECURSIVE CountWild(_)
CountWild(s) ==
    IF s = << >> THEN 0
    ELSE (IF is_wild(Head(s)) THEN 1 ELSE 0) + CountWild(Tail(s))

\* two card sequences hold the same multiset
SameBag(s, t) ==
    /\ Len(s) = Len(t)
    /\ \A i \in 1..Len(s) : CountOf(s, s[i]) = CountOf(t, s[i])

(***************************************************************************)
(* PlayerCards.                                                            *)
(***************************************************************************)

\* Option<Vec<Card>> of PlayerCards::foot
NoFoot == [some |-> FALSE, cards |-> << >>]

SomeFoot(cards) == [some |-> TRUE, cards |-> cards]

\* HashMap::new()
EmptyMap == << >>

\* HashMap::get(&rank) flattened: the cards under rank, none when absent
Played(play_area, rank) ==
    IF rank \in DOMAIN play_area THEN play_area[rank] ELSE << >>

\* HashMap::entry(rank).or_insert(vec![])
OrInsert(map, rank) ==
    [ r \in (DOMAIN map) \cup {rank} |-> IF r \in DOMAIN map THEN map[r] ELSE << >> ]

\* the cards_left_to_check loop of can_play_rank: every hand card strikes
\* its first occurrence from the list
RECURSIVE CardsLeftToCheck(_, _)
CardsLeftToCheck(hand, left) ==
    IF hand = << >> THEN left
    ELSE LET position == Position(left, Head(hand))
         IN  CardsLeftToCheck(Tail(hand),
                 IF position # 0 THEN RemoveAt(left, position) ELSE left)

\* can_play_rank testing the wild cards before the size of the book
can_play_rank_wilds_first(p, rank, cards) ==
    IF ~ (\A i \in 1..Len(cards) : is_wild(cards[i]) \/ cards[i].rank = rank)
    THEN "NotAllCardsMatchRank"
    ELSE IF CardsLeftToCheck(p.hand, cards) # << >>
    THEN "NotAllCardsInHand"
    ELSE IF CountWild(Played(p.play_area, rank)) + CountWild(cards)
              >= Len(Played(p.play_area, rank)) + Len(cards)
                   - (CountWild(Played(p.play_area, rank)) + CountWild(cards))
    THEN "TooManyWildsInBook"
    ELSE IF Len(Played(p.play_area, rank)) + Len(cards) > 7 THEN "TooManyCardsInBook"
    ELSE IF Len(Played(p.play_area, rank)) + Len(cards) < 3 THEN "TooFewCardsInBook"
    ELSE "Ok"

\* can_play_rank without its upper bound on the size of a book
can_play_rank_unbounded(p, rank, cards) ==
    IF ~ (\A i \in 1..Len(cards) : is_wild(cards[i]) \/ cards[i].rank = rank)
    THEN "NotAllCardsMatchRank"
    ELSE IF CardsLeftToCheck(p.hand, cards) # << >>
    THEN "NotAllCardsInHand"
    ELSE IF Len(Played(p.play_area, rank)) + Len(cards) < 3 THEN "TooFewCardsInBook"
    ELSE IF CountWild(Played(p.play_area, rank)) + CountWild(cards)
              >= Len(Played(p.play_area, rank)) + Len(cards)
                   - (CountWild(Played(p.play_area, rank)) + CountWild(cards))
    THEN "TooManyWildsInBook"
    ELSE "Ok"

\* PlayerCards::can_play_rank
can_play_rank(p, rank, cards) ==
    LET already_played == Played(p.play_area, rank)
        num_wild == CountWild(already_played) + CountWild(cards)
        total_num == Len(already_played) + Len(cards)
    IN  IF ~ (\A i \in 1..Len(cards) : is_wild(cards[i]) \/ cards[i].rank = rank)
        THEN "NotAllCardsMatchRank"
        ELSE IF CardsLeftToCheck(p.hand, cards) # << >>
        THEN "NotAllCardsInHand"
        ELSE IF total_num > 7 THEN "TooManyCardsInBook"
        ELSE IF total_num < 3 THEN "TooFewCardsInBook"
        ELSE IF num_wild >= total_num - num_wild THEN "TooManyWildsInBook"
        ELSE "Ok"

\* book.iter().all(|c| !c.is_wild())
NoWild(book) == \A i \in 1..Len(book) : ~ is_wild(book[i])

\* clean_books counting the books of Sevens too
clean_books_any_rank(p) ==
    Cardinality({ i \in 1..Len(p.books) : NoWild(p.books[i]) })

\* PlayerCards::clean_books
clean_books(p) ==
    Cardinality({ i \in 1..Len(p.books) :
        NoWild(p.books[i]) /\ rank_of(p.books[i][1]) # "Seven" })

\* PlayerCards::dirty_books
dirty_books(p) ==
    Cardinality({ i \in 1..Len(p.books) : ~ NoWild(p.books[i]) })

\* PlayerCards::seven_books
seven_books(p) ==
    Cardinality({ i \in 1..Len(p.books) :
        NoWild(p.books[i]) /\ rank_of(p.books[i][1]) = "Seven" })

\* PlayerCards::can_go_out
can_go_out(p) == clean_books(p) >= 1 /\ dirty_books(p) >= 1

\* the tail of play_rank: extend the entry and promote it at 7 cards
Commit(p, rank, cards) ==
    LET already_played == Played(p.play_area, rank) \o cards
    IN  IF Len(already_played) = 7
        THEN [p EXCEPT !.books = Append(p.books, already_played),
                       !.play_area = [OrInsert(p.play_area, rank) EXCEPT ![rank] = << >>]]
        ELSE [p EXCEPT !.play_area =
                       [OrInsert(p.play_area, rank) EXCEPT ![rank] = already_played]]

\* the hand-retention branch without the promotion of the foot
KeepOneCard_foot_stays(p, rank, cards, could_go_out) ==
    IF ~ p.foot.some /\ Len(p.hand) <= 1
    THEN IF ~ could_go_out \/ Len(p.hand) = 0
         THEN [res |-> "MustKeepOneCardInHand",
               p |-> [p EXCEPT !.hand = p.hand \o cards]]
         ELSE [res |-> "Ok", p |-> p]
    ELSE [res |-> "Ok", p |-> p]

\* the hand-retention branch without the test of can_go_out
KeepOneCard_ungated(p, rank, cards, could_go_out) ==
    IF (Len(p.hand) = 0 /\ p.foot.some) \/ (~ p.foot.some /\ Len(p.hand) <= 1)
    THEN IF p.foot.some
         THEN [res |-> "Ok", p |-> [p EXCEPT !.hand = p.foot.cards, !.foot = NoFoot]]
         ELSE IF Len(p.hand) = 0
              THEN [res |-> "MustKeepOneCardInHand",
                    p |-> [p EXCEPT !.hand = p.hand \o cards]]
              ELSE [res |-> "Ok", p |-> p]
    ELSE [res |-> "Ok", p |-> p]

\* the hand-retention branch without the return of the cards to the hand
KeepOneCard_no_undo(p, rank, cards, could_go_out) ==
    IF (Len(p.hand) = 0 /\ p.foot.some) \/ (~ p.foot.some /\ Len(p.hand) <= 1)
    THEN IF p.foot.some
         THEN [res |-> "Ok", p |-> [p EXCEPT !.hand = p.foot.cards, !.foot = NoFoot]]
         ELSE IF ~ could_go_out \/ Len(p.hand) = 0
              THEN [res |-> "MustKeepOneCardInHand", p |-> p]
              ELSE [res |-> "Ok", p |-> p]
    ELSE [res |-> "Ok", p |-> p]

\* the hand-retention branch letting a player who can go out empty the hand
KeepOneCard_may_empty(p, rank, cards, could_go_out) ==
    IF (Len(p.hand) = 0 /\ p.foot.some) \/ (~ p.foot.some /\ Len(p.hand) <= 1)
    THEN IF p.foot.some
         THEN [res |-> "Ok", p |-> [p EXCEPT !.hand = p.foot.cards, !.foot = NoFoot]]
         ELSE IF ~ could_go_out
              THEN [res |-> "MustKeepOneCardInHand",
                    p |-> [p EXCEPT !.hand = p.hand \o cards]]
              ELSE [res |-> "Ok", p |-> p]
    ELSE [res |-> "Ok", p |-> p]

\* the hand-retention branch of play_rank, entered with the cards already
\* removed from the hand and the entry for rank inserted
KeepOneCard(p, rank, cards, could_go_out) ==
    IF (Len(p.hand) = 0 /\ p.foot.some) \/ (~ p.foot.some /\ Len(p.hand) <= 1)
    THEN IF p.foot.some
         THEN [res |-> "Ok", p |-> [p EXCEPT !.hand = p.foot.cards, !.foot = NoFoot]]
         ELSE IF ~ could_go_out \/ Len(p.hand) = 0
              THEN [res |-> "MustKeepOneCardInHand",
                    p |-> [p EXCEPT !.hand = p.hand \o cards]]
              ELSE [res |-> "Ok", p |-> p]
    ELSE [res |-> "Ok", p |-> p]

\* play_rank once the hand-retention branch has decided
CommitKept(kept, rank, cards) ==
    IF kept.res # "Ok" THEN kept
    ELSE [res |-> "Ok", p |-> Commit(kept.p, rank, cards)]

\* play_rank after can_play_rank has returned err
PlayChecked(err, p, rank, cards) ==
    IF err # "Ok" THEN [res |-> err, p |-> p]
    ELSE CommitKept(
             KeepOneCard([p EXCEPT !.play_area = OrInsert(p.play_area, rank),
                                   !.hand = RemoveAll(p.hand, cards)],
                         rank, cards, can_go_out(p)),
             rank, cards)

\* PlayerCards::play_rank : the result and the player afterwards
play_rank(p, rank, cards) ==
    PlayChecked(can_play_rank(p, rank, cards), p, rank, cards)

\* the iteration orders a HashMap may yield its keys in
Orders(map) ==
    { o \in [1..Cardinality(DOMAIN map) -> DOMAIN map] :
        \A i, j \in DOMAIN o : i # j => o[i] # o[j] }

\* sum of the points of every card of every group
RECURSIVE GroupPoints(_, _)
GroupPoints(groups, order) ==
    IF order = << >> THEN 0
    ELSE SumPoints(groups[Head(order)]) + GroupPoints(groups, Tail(order))

\* the `?` of a loop body: stop at an error, else go on
OrElse(err, rest) == IF err # "Ok" THEN err ELSE rest

\* the can_play_rank loop of can_play, first error wins
RECURSIVE CheckGroups(_, _, _)
CheckGroups(p, groups, order) ==
    IF order = << >> THEN "Ok"
    ELSE OrElse(can_play_rank(p, Head(order), groups[Head(order)]),
                CheckGroups(p, groups, Tail(order)))

\* self.play_area.values().flatten().any(|_| true)
has_melded(p) == \E r \in DOMAIN p.play_area : p.play_area[r] # << >>

\* can_play refusing a first meld worth exactly the threshold
can_play_above(p, round, groups, order) ==
    IF ~ has_melded(p) /\ GroupPoints(groups, order) <= Meld(round)
    THEN "NotEnoughMeld"
    ELSE CheckGroups(p, groups, order)

\* PlayerCards::can_play, the map iterated in the given order
can_play(p, round, groups, order) ==
    IF ~ has_melded(p) /\ GroupPoints(groups, order) < Meld(round)
    THEN "NotEnoughMeld"
    ELSE CheckGroups(p, groups, order)

\* the play_rank loop of play, stopping at the first error
RECURSIVE PlayGroups(_, _, _)
PlayRest(one, groups, order) ==
    IF one.res # "Ok" THEN one ELSE PlayGroups(one.p, groups, order)

PlayGroups(p, groups, order) ==
    IF order = << >> THEN [res |-> "Ok", p |-> p]
    ELSE PlayRest(play_rank(p, Head(order), groups[Head(order)]), groups, Tail(order))

\* play after can_play has returned err
PlayValidated(err, p, groups, order) ==
    IF err # "Ok" THEN [res |-> err, p |-> p] ELSE PlayGroups(p, groups, order)

\* PlayerCards::play
play(p, round, groups, order) ==
    PlayValidated(can_play(p, round, groups, order), p, groups, order)

(***************************************************************************)
(* Deck: a Vec<Card> whose top is its last element.                        *)
(***************************************************************************)

\* the cards Deck::take(num) returns, in the order they are popped
RECURSIVE Popped(_, _)
Popped(d, num) ==
    IF num = 0 THEN << >>
    ELSE << d[Len(d)] >> \o Popped(SubSeq(d, 1, Len(d) - 1), num - 1)

\* Deck::take : Option of the popped cards, and the deck afterwards
take(d, num) ==
    IF Len(d) >= num
    THEN [some |-> TRUE, cards |-> Popped(d, num), deck |-> SubSeq(d, 1, Len(d) - num)]
    ELSE [some |-> FALSE, cards |-> << >>, deck |-> d]

\* Deck::deal before the shuffle: num_players + 1 copies of Card::iter
RECURSIVE Unshuffled(_)
Unshuffled(copies) ==
    IF copies = 0 THEN << >> ELSE CardIter \o Unshuffled(copies - 1)

(***************************************************************************)
(* Game.                                                                   *)
(***************************************************************************)

\* hand.drain_filter(red Three): what stays in the hand
WithoutRedThrees(hand) == SelectSeq(hand, LAMBDA c : ~ IsRedThree(c))

\* resolve_red_threes without the re-scan of the replacements
resolve_red_threes_once(g, player_idx) ==
    IF Len(g.players[player_idx].hand)
           = Len(SelectSeq(g.players[player_idx].hand, LAMBDA c : ~ IsRedThree(c)))
    THEN [res |-> "Ok", g |-> g]
    ELSE IF Len(g.deck) < Len(g.players[player_idx].hand)
               - Len(SelectSeq(g.players[player_idx].hand, LAMBDA c : ~ IsRedThree(c)))
    THEN [res |-> "NotEnoughCards", g |-> g]
    ELSE [res |-> "Ok",
          g |-> [g EXCEPT
                   !.players[player_idx].hand =
                       SelectSeq(@, LAMBDA c : ~ IsRedThree(c))
                           \o Popped(g.deck, Len(@)
                                  - Len(SelectSeq(@, LAMBDA c : ~ IsRedThree(c)))),
                   !.players[player_idx].red_threes =
                       @ + Len(g.players[player_idx].hand)
                         - Len(SelectSeq(g.players[player_idx].hand,
                                         LAMBDA c : ~ IsRedThree(c))),
                   !.deck = SubSeq(@, 1, Len(@) - (Len(g.players[player_idx].hand)
                         - Len(SelectSeq(g.players[player_idx].hand,
                                         LAMBDA c : ~ IsRedThree(c)))))]]

\* Game::resolve_red_threes : the result and the game afterwards
RECURSIVE resolve_red_threes(_, _)
resolve_red_threes(g, player_idx) ==
    LET player == g.players[player_idx]
        kept == WithoutRedThrees(player.hand)
        red_threes_in_hand == Len(player.hand) - Len(kept)
        banked == [player EXCEPT !.hand = kept,
                                 !.red_threes = @ + red_threes_in_hand]
        taken == take(g.deck, red_threes_in_hand)
    IN  IF red_threes_in_hand = 0 THEN [res |-> "Ok", g |-> g]
        ELSE IF ~ taken.some
        THEN [res |-> "NotEnoughCards",
              g |-> [g EXCEPT !.players[player_idx] = banked]]
        ELSE resolve_red_threes(
                 [g EXCEPT !.players[player_idx] =
                               [banked EXCEPT !.hand = kept \o taken.cards],
                           !.deck = taken.deck],
                 player_idx)

\* Game::draw
draw(g, player_idx) ==
    LET taken == take(g.deck, 2)
    IN  IF ~ taken.some THEN [res |-> "NotEnoughCards", g |-> g]
        ELSE [res |-> "Ok",
              g |-> [g EXCEPT !.players[player_idx].hand = @ \o taken.cards,
                              !.deck = taken.deck]]

\* Vec::pop on the hand: drops the last card, if any
PopHand(p) ==
    IF p.hand = << >> THEN p
    ELSE [p EXCEPT !.hand = SubSeq(p.hand, 1, Len(p.hand) - 1)]

\* cards_to_play.entry(rank).or_insert_with(vec![]).push(top_card)
Merged(cards_to_play, top_card) ==
    [OrInsert(cards_to_play, top_card.rank) EXCEPT ![top_card.rank] = Append(@, top_card)]

\* the end of the inner block of pickup leaving the 6 cards under the top
\* card on the discard pile
PickupPlayed_top_only(played, g, player_idx) ==
    IF played.res # "Ok"
    THEN [res |-> played.res,
          g |-> [g EXCEPT !.players[player_idx] = PopHand(played.p)]]
    ELSE [res |-> "Ok", g |-> [g EXCEPT !.players[player_idx] = played.p]]

\* the end of the inner undo_on_error block of pickup: play has returned
\* played; on Ok the 6 cards under the top card go to the hand, on an error
\* the hand is popped
PickupPlayed(played, g, player_idx) ==
    IF played.res # "Ok"
    THEN [res |-> played.res,
          g |-> [g EXCEPT !.players[player_idx] = PopHand(played.p)]]
    ELSE [res |-> "Ok",
          g |-> [g EXCEPT !.players[player_idx] =
                              [played.p EXCEPT !.hand = @ \o take(g.discard_pile, 6).cards],
                          !.discard_pile = take(g.discard_pile, 6).deck]]

\* the inner undo_on_error block of pickup after can_play has returned err
PickupChecked(err, g, player_idx, groups, order) ==
    IF err # "Ok"
    THEN [res |-> err,
          g |-> [g EXCEPT !.players[player_idx] = PopHand(g.players[player_idx])]]
    ELSE PickupPlayed(play(g.players[player_idx], g.round, groups, order),
                      g, player_idx)

\* the inner undo_on_error block of pickup, entered with the top card pushed
\* on the hand: can_play, play, then the 6 cards under the top card
PickupMeld(g, player_idx, groups, order) ==
    PickupChecked(can_play(g.players[player_idx], g.round, groups, order),
                  g, player_idx, groups, order)

\* player.hand.iter().filter(|x| x.rank() == top_card.rank()).count()
Matching(hand, top_card) ==
    Cardinality({ i \in 1..Len(hand) : rank_of(hand[i]) = rank_of(top_card) })

\* the outer undo_on_error block of pickup, entered with the top card taken
\* off the discard pile
PickupTop(g, player_idx, cards_to_play, top_card, order) ==
    IF ~ can_be_booked(top_card) THEN [res |-> "CanOnlyPickupBookable", g |-> g]
    ELSE IF g.locked /\ Matching(g.players[player_idx].hand, top_card) < 2
    THEN [res |-> "DeckIsLockedNeedTwoInHand", g |-> g]
    ELSE PickupMeld([g EXCEPT !.players[player_idx].hand = Append(@, top_card)],
                    player_idx, Merged(cards_to_play, top_card), order)

\* the undo of the outer block: an error puts the top card back
PickupUndo(tried, top_card) ==
    IF tried.res # "Ok"
    THEN [res |-> tried.res,
          g |-> [tried.g EXCEPT !.discard_pile = Append(@, top_card)]]
    ELSE tried

\* Game::pickup; order is the iteration order of the merged map
pickup(g, player_idx, cards_to_play, order) ==
    IF Len(g.discard_pile) < 7 THEN [res |-> "NotEnoughCards", g |-> g]
    ELSE PickupUndo(
             PickupTop([g EXCEPT !.discard_pile = take(g.discard_pile, 1).deck],
                       player_idx, cards_to_play,
                       g.discard_pile[Len(g.discard_pile)], order),
             g.discard_pile[Len(g.discard_pile)])

\* enum DrawAction
Draw == [kind |-> "Draw", groups |-> EmptyMap]

Pickup(groups) == [kind |-> "Pickup", groups |-> groups]

\* no pickup was made
NoPickup == [res |-> "NotCalled"]

\* the draw step with `?` on the pickup in place of the fallback to draw
OrElseDraw_no_fallback(picked, before, player_idx) ==
    [res |-> picked.res,
     g |-> picked.g,
     picked |-> [res |-> picked.res, before |-> before, after |-> picked.g]]

\* .or_else(|_| self.draw(player_idx)); the pickup made is kept as a trace
OrElseDraw(picked, before, player_idx) ==
    [res |-> IF picked.res = "Ok" THEN "Ok" ELSE draw(picked.g, player_idx).res,
     g |-> IF picked.res = "Ok" THEN picked.g ELSE draw(picked.g, player_idx).g,
     picked |-> [res |-> picked.res, before |-> before, after |-> picked.g]]

\* the draw step of take_turn: pickup, falling back to draw on any error
DrawOrPickup(g, player_idx, draw_action, order) ==
    IF draw_action.kind = "Pickup"
    THEN OrElseDraw(pickup(g, player_idx, draw_action.groups, order), g, player_idx)
    ELSE [res |-> draw(g, player_idx).res, g |-> draw(g, player_idx).g,
          picked |-> NoPickup]

\* the second resolve_red_threes of take_turn
TurnResolved(drawn, player_idx) ==
    IF drawn.res # "Ok" THEN drawn
    ELSE [res |-> resolve_red_threes(drawn.g, player_idx).res,
          g |-> resolve_red_threes(drawn.g, player_idx).g,
          picked |-> drawn.picked]

\* the draw step and what follows it in take_turn
TurnDrawn(first, player_idx, draw_action, order) ==
    IF first.res # "Ok" THEN [res |-> first.res, g |-> first.g, picked |-> NoPickup]
    ELSE TurnResolved(DrawOrPickup(first.g, player_idx, draw_action, order), player_idx)

\* take_turn up to the call of the meld strategy: the result, the game and
\* the pickup made on the way
TurnHead(g, player_idx, draw_action, order) ==
    TurnDrawn(resolve_red_threes(g, player_idx), player_idx, draw_action, order)

\* the tail of take_turn with the accepted discard laid on the discard pile
TurnTail_pushes(g, player_idx, discard) ==
    LET player == g.players[player_idx]
        hand == RemoveAt(player.hand, Position(player.hand, discard))
        laid == [g EXCEPT !.discard_pile = Append(@, discard)]
    IN  IF Len(hand) = 0
        THEN IF player.foot.some
             THEN [res |-> "Over",
                   g |-> [laid EXCEPT !.players[player_idx].hand = player.foot.cards,
                                      !.players[player_idx].foot = NoFoot]]
             ELSE [res |-> "Out", g |-> [laid EXCEPT !.players[player_idx].hand = hand]]
        ELSE [res |-> "Over", g |-> [laid EXCEPT !.players[player_idx].hand = hand]]

\* the foot check without the look at the foot: an empty hand ends the game
TurnTail_out_with_foot(g, player_idx, discard) ==
    LET player == g.players[player_idx]
        hand == RemoveAt(player.hand, Position(player.hand, discard))
    IN  IF Len(hand) = 0
        THEN [res |-> "Out", g |-> [g EXCEPT !.players[player_idx].hand = hand]]
        ELSE [res |-> "Over", g |-> [g EXCEPT !.players[player_idx].hand = hand]]

\* take_turn from the accepted discard on: the card leaves the hand, then
\* the foot check decides the result
TurnTail(g, player_idx, discard) ==
    LET player == g.players[player_idx]
        hand == RemoveAt(player.hand, Position(player.hand, discard))
    IN  IF Len(hand) = 0
        THEN IF player.foot.some
             THEN [res |-> "Over",
                   g |-> [g EXCEPT !.players[player_idx].hand = player.foot.cards,
                                   !.players[player_idx].foot = NoFoot]]
             ELSE [res |-> "Out", g |-> [g EXCEPT !.players[player_idx].hand = hand]]
        ELSE [res |-> "Over", g |-> [g EXCEPT !.players[player_idx].hand = hand]]

\* Game::deal, from the shuffled deck Deck::deal returns
RECURSIVE DealPlayers(_, _)
DealPlayers(deck, num_players) ==
    IF num_players = 0 THEN [players |-> << >>, deck |-> deck]
    ELSE LET hand == take(deck, 11)
             foot == take(hand.deck, 11)
             others == DealPlayers(foot.deck, num_players - 1)
         IN  [players |-> << [hand |-> hand.cards,
                              foot |-> SomeFoot(foot.cards),
                              books |-> << >>,
                              red_threes |-> 0,
                              play_area |-> EmptyMap] >> \o others.players,
              deck |-> others.deck]

deal(round, num_players, shuffled) ==
    LET dealt == DealPlayers(shuffled, num_players)
    IN  [players |-> dealt.players,
         round |-> round,
         deck |-> dealt.deck,
         locked |-> FALSE,
         discard_pile |-> << >>]


\* the points of the cards of the books
RECURSIVE BookPoints(_)
BookPoints(books) ==
    IF books = << >> THEN 0 ELSE SumPoints(Head(books)) + BookPoints(Tail(books))

\* the points of the cards of the play area
RECURSIVE AreaPoints(_, _)
AreaPoints(play_area, ranks) ==
    IF ranks = {} THEN 0
    ELSE LET r == CHOOSE x \in ranks : TRUE
         IN  SumPoints(play_area[r]) + AreaPoints(play_area, ranks \ {r})

\* the closure of Game::score: one player's score
PlayerScore(player) ==
    player.red_threes * 100
    + (clean_books(player) * 500 + dirty_books(player) * 300
         + seven_books(player) * 1500)
    + (BookPoints(player.books) + AreaPoints(player.play_area, DOMAIN player.play_area))
    - (SumPoints(player.hand) + SumPoints(player.foot.cards))

\* Game::score
score(g) == [ i \in 1..Len(g.players) |-> PlayerScore(g.players[i]) ]

(***************************************************************************)
(* Bounds of the model.                                                    *)
(***************************************************************************)

\* take_turn calls per game
MaxTurns == 1

\* calls the meld strategy makes per turn
MaxCalls == 2

\* players for whom the caller takes turns (player_idx ranges over them)
ActingPlayers == 1

\* wild cards a strategy adds to one group
MaxWilds == 1

\* sizes of the partial groups a strategy forms besides the full one
MaxPart == 0

\* number of players dealt in, as in main
NumPlayers == 4

(***************************************************************************)
(* The inputs the strategies draw from: groups formed from the hand.       *)
(***************************************************************************)

Min(a, b) == IF a < b THEN a ELSE b

\* the hand's cards of one rank, and its wild cards, in hand order
Naturals(hand, rank) == SelectSeq(hand, LAMBDA c : c # Joker /\ c.rank = rank)

Wilds(hand) == SelectSeq(hand, is_wild)

\* the ranks a player's groups are keyed by: those of the hand and those
\* already in the play area
KeyRanks(p) ==
    ({ p.hand[i].rank : i \in 1..Len(p.hand) } \ {"Joker"}) \cup DOMAIN p.play_area

\* groups of hand cards for one rank: all or the first few of the rank's
\* cards followed by some of the hand's wild cards
GroupsOf(hand, rank) ==
    { SubSeq(Naturals(hand, rank), 1, k) \o SubSeq(Wilds(hand), 1, w) :
        k \in { n \in 0..Len(Naturals(hand, rank)) :
                  n <= MaxPart \/ n = Len(Naturals(hand, rank)) },
        w \in 0..Min(Len(Wilds(hand)), MaxWilds) } \ { << >> }

\* a group under its own rank, and two probes of the full group: under
\* rank Three, and with its first card once more
RankInputs(p) ==
    UNION { { << r, cards >> : cards \in GroupsOf(p.hand, r) } : r \in KeyRanks(p) }
    \cup { << "Three", Naturals(p.hand, r) >> :
             r \in { x \in KeyRanks(p) : Naturals(p.hand, x) # << >> } }
    \cup { << r, Naturals(p.hand, r) \o << Naturals(p.hand, r)[1] >> >> :
             r \in { x \in KeyRanks(p) : Naturals(p.hand, x) # << >> } }

\* a one-entry HashMap
OneGroup(rank, cards) == [ r \in {rank} |-> cards ]

\* a two-entry HashMap of two full groups with w1 and w2 wild cards
TwoGroups(hand, r1, r2, w1, w2) ==
    [ r \in {r1, r2} |->
        Naturals(hand, r) \o SubSeq(Wilds(hand), 1, IF r = r1 THEN w1 ELSE w2) ]

\* maps of one group, maps of two full groups with some wild cards each,
\* and the empty map
MapInputs(p) ==
    { OneGroup(in[1], in[2]) : in \in RankInputs(p) }
    \cup { TwoGroups(p.hand, rr[1], rr[2], w1, w2) :
             rr \in { x \in KeyRanks(p) \X KeyRanks(p) : x[1] # x[2] },
             w1 \in 0..Min(Len(Wilds(p.hand)), 1), w2 \in 0..Min(Len(Wilds(p.hand)), 1) }
    \cup { EmptyMap }

\* the draw strategy's choices: Draw, or Pickup with no group or one group
DrawInputs(p) ==
    {Draw} \cup { Pickup(EmptyMap) }
    \cup UNION { { Pickup(OneGroup(r, cards)) : cards \in GroupsOf(p.hand, r) } :
                   r \in KeyRanks(p) }

\* the discard strategy's choices: the first or the last card of the hand
DiscardInputs(p) ==
    IF p.hand = << >> THEN {} ELSE { p.hand[1], p.hand[Len(p.hand)] }

(***************************************************************************)
(* The shuffles Deck::deal is taken to produce: the first player's hand,   *)
(* foot and first draws are as listed, the other cards keep their order.   *)
(***************************************************************************)

RECURSIVE Reverse(_)
Reverse(s) == IF s = << >> THEN << >> ELSE Reverse(Tail(s)) \o << Head(s) >>

RECURSIVE Copies(_, _)
Copies(c, n) == IF n = 0 THEN << >> ELSE << c >> \o Copies(c, n - 1)

\* the cards left of the decks once hand, foot and draws are set apart
Remainder(hand, foot, draws) ==
    RemoveAll(Unshuffled(NumPlayers + 1), hand \o foot \o draws)

\* a deck that deals hand and foot to the first player and then yields draws
Stacked(hand, foot, draws) ==
    SubSeq(Remainder(hand, foot, draws), 22 * (NumPlayers - 1) + 1,
           Len(Remainder(hand, foot, draws)))
    \o Reverse(draws)
    \o SubSeq(Remainder(hand, foot, draws), 1, 22 * (NumPlayers - 1))
    \o Reverse(hand \o foot)

\* one shuffle deals Aces and Kings over a foot of Queens and Fours, the
\* other Threes and Sevens over a foot of Fives and Jacks
Shuffles ==
    { Stacked(
        << Regular("Three", "Heart") >> \o Copies(Regular("Three", "Spade"), 2)
            \o << Regular("Three", "Club") >> \o Copies(Regular("Seven", "Spade"), 4)
            \o Copies(Regular("Seven", "Club"), 3),
        Copies(Regular("Five", "Spade"), 4) \o Copies(Regular("Five", "Club"), 3)
            \o Copies(Regular("Jack", "Spade"), 3) \o << Joker >>,
        << Regular("Seven", "Club"), Regular("Seven", "Diamond"),
           Regular("Three", "Diamond"), Regular("Seven", "Heart"),
           Regular("Seven", "Club"), Regular("Queen", "Club") >>),
      Stacked(
        Copies(Regular("Ace", "Spade"), 4) \o Copies(Regular("Ace", "Club"), 3)
            \o Copies(Regular("King", "Spade"), 4),
        << Joker >> \o Copies(Regular("Queen", "Spade"), 4)
            \o Copies(Regular("Queen", "Club"), 3)
            \o Copies(Regular("Four", "Spade"), 2) \o << Regular("Three", "Heart") >>,
        << Regular("King", "Club"), Joker, Regular("Four", "Club"),
           Regular("Three", "Spade"), Regular("Three", "Diamond"),
           Regular("Five", "Club") >>) }

(***************************************************************************)
(* State.                                                                  *)
(***************************************************************************)

VARIABLES
    players,        \* Game::players, each a PlayerCards
    round,          \* Game::round
    deck,           \* Game::deck, top last
    locked,         \* Game::locked
    discard_pile,   \* Game::discard_pile, top last
    pc,             \* "idle", "meld" (take_turn is in its meld strategy) or
                    \* "discard" (the meld strategy has returned)
    cur,            \* the player_idx of the take_turn in progress
    call,           \* the last call made: its name and arguments, and for
                    \* score the vector it returned
    ret,            \* what the last call returned
    pre,            \* the Game before the last call
    picked,         \* the pickup made by the last call: result, Game before and after
    melded,         \* per player: some play, the one of a pickup included, has returned Ok
    turns,          \* take_turn calls so far
    calls           \* calls of the meld strategy in this turn

vars == << players, round, deck, locked, discard_pile, pc, cur, call, ret, pre,
           picked, melded, turns, calls >>

\* struct Game
Game ==
    [players |-> players, round |-> round, deck |-> deck, locked |-> locked,
     discard_pile |-> discard_pile]

SetGame(g) ==
    /\ players' = g.players
    /\ round' = g.round
    /\ deck' = g.deck
    /\ locked' = g.locked
    /\ discard_pile' = g.discard_pile

Start(g) ==
    /\ players = g.players
    /\ round = g.round
    /\ deck = g.deck
    /\ locked = g.locked
    /\ discard_pile = g.discard_pile
    /\ pc = "idle"
    /\ cur = 0
    /\ call = [op |-> "new"]
    /\ ret = "Ok"
    /\ pre = g
    /\ picked = NoPickup
    /\ melded = [ i \in 1..Len(g.players) |-> FALSE ]
    /\ turns = 0
    /\ calls = 0

\* Game::deal(Round::One, 4), as main deals
Init == \E g \in { deal("One", NumPlayers, shuffled) : shuffled \in Shuffles } : Start(g)

(***************************************************************************)
(* Games in mid-play: values of struct Game with a short deck, a short     *)
(* hand, books already made and a stocked discard pile, from which the     *)
(* operations are applied as from the deal.                                *)
(***************************************************************************)

\* a PlayerCards value
PlayerCards(hand, foot, books, play_area) ==
    [hand |-> hand, foot |-> foot, books |-> books, red_threes |-> 0,
     play_area |-> play_area]

\* a Game value with one player
GameOf(player, round_, deck_, locked_, discard_pile_) ==
    [players |-> << player >>, round |-> round_, deck |-> deck_,
     locked |-> locked_, discard_pile |-> discard_pile_]

\* hands: one Four; three Fours; a Four and a King; a red Three with three
\* black Threes; two Fives and a Two; Aces, Kings and a Joker
MidHands ==
    [ fours |-> << Regular("Four", "Spade") >>,
      threeFours |-> << Regular("Four", "Spade"), Regular("Four", "Spade"),
                        Regular("Four", "Club") >>,
      fourKing |-> << Regular("Four", "Spade"), Regular("King", "Spade") >>,
      threes |-> << Regular("Three", "Heart"), Regular("Three", "Spade"),
                    Regular("Three", "Spade"), Regular("Three", "Club") >>,
      fives |-> << Regular("Five", "Spade"), Regular("Five", "Club"),
                   Regular("Two", "Spade") >>,
      aces |-> << Regular("Ace", "Spade"), Regular("Ace", "Spade"), Joker,
                  Regular("King", "Spade"), Regular("King", "Spade"),
                  Regular("King", "Club") >> ]

\* an untouched foot of 11 cards
MidFoot ==
    SomeFoot(Copies(Regular("Six", "Spade"), 4) \o Copies(Regular("Six", "Club"), 3)
             \o Copies(Regular("Nine", "Club"), 3) \o << Regular("Three", "Diamond") >>)

\* no book, or a clean and a dirty one
MidBooks ==
    { << >>,
      << Copies(Regular("Eight", "Spade"), 7),
         Copies(Regular("Ten", "Spade"), 5) \o << Joker, Joker >> >> }

\* nothing in play, or three Fives
MidPlayAreas ==
    { EmptyMap,
      OneGroup("Five", << Regular("Five", "Spade"), Regular("Five", "Spade"),
                          Regular("Five", "Club") >>) }

\* a deck whose first two draws are Fours
FullDeck ==
    << Regular("Nine", "Spade"), Regular("King", "Club"), Regular("Four", "Club"),
       Regular("Four", "Spade") >>

\* decks about to run out: empty, one card, a Four over a red Three, a red
\* Three over three cards
ShortDecks ==
    { << >>, << Regular("Nine", "Spade") >>,
      << Regular("Three", "Diamond"), Regular("Four", "Club") >>,
      << Regular("Four", "Club"), Regular("Nine", "Spade"), Regular("Four", "Spade"),
         Regular("Three", "Diamond") >> }

\* discard piles of 7 cards: a Five on top, or a Joker
Piles ==
    { << Regular("Nine", "Spade"), Regular("Nine", "Spade"), Regular("Six", "Spade"),
         Regular("Six", "Spade"), Regular("Six", "Club"), Regular("King", "Club") >>
      \o << top >> : top \in { Regular("Five", "Diamond"), Joker } }

\* melds: every hand but the Fives, with or without foot, books and cards in
\* play, in round One; the Aces in the other rounds too
MeldGames ==
    { GameOf(PlayerCards(MidHands[h], foot, books, play_area), "One", FullDeck,
             FALSE, << >>) :
        h \in {"fours", "fourKing", "threes", "aces"}, foot \in {NoFoot, MidFoot},
        books \in MidBooks, play_area \in MidPlayAreas }
    \cup { GameOf(PlayerCards(MidHands["aces"], NoFoot, << >>, EmptyMap), r, FullDeck,
                  FALSE, << >>) : r \in Round }

\* pickups: a stocked discard pile, locked or not
PickupGames ==
    { GameOf(PlayerCards(MidHands[h], foot, << >>, play_area), "One", FullDeck,
             locked_, pile) :
        h \in {"threeFours", "fives"}, foot \in {NoFoot, MidFoot},
        play_area \in MidPlayAreas, locked_ \in BOOLEAN, pile \in Piles }

\* the deck runs out
ShortGames ==
    { GameOf(PlayerCards(MidHands[h], NoFoot, << >>, EmptyMap), "One", deck_,
             FALSE, << >>) :
        h \in {"fours", "threes"}, deck_ \in ShortDecks }

\* a red Three in a hand over a foot, with a clean book, a dirty book, a book
\* of Sevens and cards in play
ScoreGames ==
    { GameOf(PlayerCards(MidHands["threes"], MidFoot,
                         << Copies(Regular("Eight", "Spade"), 7),
                            Copies(Regular("Ten", "Spade"), 5) \o << Joker, Joker >>,
                            Copies(Regular("Seven", "Club"), 7) >>,
                         play_area),
             "One", FullDeck, FALSE, << >>) : play_area \in MidPlayAreas }

\* a book of Aces just promoted, its entry left empty, with two Aces, three
\* Twos and eight Kings in hand
PromotedGames ==
    { GameOf(PlayerCards(Copies(Regular("Ace", "Spade"), 2)
                             \o Copies(Regular("Two", "Spade"), 2)
                             \o << Regular("Two", "Club") >>
                             \o Copies(Regular("King", "Spade"), 5)
                             \o Copies(Regular("King", "Club"), 3),
                         NoFoot, << Copies(Regular("Ace", "Club"), 7) >>,
                         OneGroup("Ace", << >>)),
             "One", FullDeck, FALSE, << >>) }

MidInit ==
    \E g \in MeldGames \cup PickupGames \cup ShortGames \cup ScoreGames
               \cup PromotedGames : Start(g)

(***************************************************************************)
(* Actions.                                                                *)
(***************************************************************************)

\* take_turn from its entry to the call of the meld strategy, or to the
\* error it returns before
TakeTurn(player_idx, draw_action, order) ==
    /\ pc = "idle"
    /\ turns < MaxTurns
    /\ \E head \in { TurnHead(Game, player_idx, draw_action, order) } :
         /\ SetGame(head.g)
         /\ pc' = IF head.res = "Ok" THEN "meld" ELSE "idle"
         /\ ret' = IF head.res = "Ok" THEN "InMeld" ELSE head.res
         /\ picked' = head.picked
         /\ melded' = [melded EXCEPT ![player_idx] = @ \/ head.picked.res = "Ok"]
    /\ cur' = player_idx
    /\ call' = [op |-> "take_turn", player_idx |-> player_idx,
                draw_action |-> draw_action, order |-> order]
    /\ pre' = Game
    /\ turns' = turns + 1
    /\ calls' = 0

\* the meld strategy calls can_play on the acting player; a strategy
\* returns after the first call that leaves the player as it was
CanPlay(groups, order) ==
    /\ pc = "meld"
    /\ calls < MaxCalls
    /\ pc' = "discard"
    /\ call' = [op |-> "can_play", player_idx |-> cur, round |-> round,
                groups |-> groups, order |-> order]
    /\ ret' = can_play(players[cur], round, groups, order)
    /\ pre' = Game
    /\ calls' = calls + 1
    /\ picked' = NoPickup
    /\ UNCHANGED << players, round, deck, locked, discard_pile, cur, melded, turns >>

\* the meld strategy calls can_play_rank on the acting player
CanPlayRank(rank, cards) ==
    /\ pc = "meld"
    /\ calls < MaxCalls
    /\ pc' = "discard"
    /\ call' = [op |-> "can_play_rank", player_idx |-> cur, rank |-> rank,
                cards |-> cards]
    /\ ret' = can_play_rank(players[cur], rank, cards)
    /\ pre' = Game
    /\ calls' = calls + 1
    /\ picked' = NoPickup
    /\ UNCHANGED << players, round, deck, locked, discard_pile, cur, melded, turns >>

\* the meld strategy calls play on the acting player
Play(groups, order) ==
    /\ pc = "meld"
    /\ calls < MaxCalls
    /\ \E done \in { play(players[cur], round, groups, order) } :
         /\ players' = [players EXCEPT ![cur] = done.p]
         /\ ret' = done.res
         /\ melded' = [melded EXCEPT ![cur] = @ \/ done.res = "Ok"]
         /\ pc' = IF done.p = players[cur] THEN "discard" ELSE "meld"
    /\ call' = [op |-> "play", player_idx |-> cur, round |-> round,
                groups |-> groups, order |-> order]
    /\ pre' = Game
    /\ calls' = calls + 1
    /\ picked' = NoPickup
    /\ UNCHANGED << round, deck, locked, discard_pile, cur, turns >>

\* the meld strategy calls play_rank on the acting player
PlayRank(rank, cards) ==
    /\ pc = "meld"
    /\ calls < MaxCalls
    /\ \E done \in { play_rank(players[cur], rank, cards) } :
         /\ players' = [players EXCEPT ![cur] = done.p]
         /\ ret' = done.res
         /\ pc' = IF done.p = players[cur] THEN "discard" ELSE "meld"
    /\ call' = [op |-> "play_rank", player_idx |-> cur, rank |-> rank,
                cards |-> cards]
    /\ pre' = Game
    /\ calls' = calls + 1
    /\ picked' = NoPickup
    /\ UNCHANGED << round, deck, locked, discard_pile, cur, melded, turns >>

\* the meld strategy has returned and the discard strategy names a card of
\* the hand: take_turn runs to its end
Discard(discard) ==
    /\ pc \in {"meld", "discard"}
    /\ Position(players[cur].hand, discard) # 0
    /\ \E tail \in { TurnTail(Game, cur, discard) } :
         /\ SetGame(tail.g)
         /\ ret' = tail.res
    /\ pc' = "idle"
    /\ call' = [op |-> "discard", player_idx |-> cur, discard |-> discard]
    /\ pre' = Game
    /\ picked' = NoPickup
    /\ UNCHANGED << cur, melded, turns, calls >>

\* the caller asks for the scores between two turns
Score ==
    /\ pc = "idle"
    /\ call' = [op |-> "score", returned |-> score(Game)]
    /\ ret' = "Ok"
    /\ pre' = Game
    /\ picked' = NoPickup
    /\ UNCHANGED << players, round, deck, locked, discard_pile, pc, cur, melded,
                    turns, calls >>

\* the iteration orders of the map pickup merges, when it gets that far
PickupOrders(draw_action) ==
    Orders(IF draw_action.kind = "Pickup"
              /\ Len(discard_pile) >= 7
              /\ can_be_booked(discard_pile[Len(discard_pile)])
           THEN Merged(draw_action.groups, discard_pile[Len(discard_pile)])
           ELSE EmptyMap)

\* the caller takes a turn for a player
TakeTurnStep ==
    /\ pc = "idle"
    /\ \E player_idx \in 1..Min(ActingPlayers, Len(players)) :
         \E draw_action \in DrawInputs(players[player_idx]) :
           \E order \in PickupOrders(draw_action) :
             TakeTurn(player_idx, draw_action, order)

CanPlayStep ==
    /\ pc = "meld"
    /\ \E groups \in MapInputs(players[cur]) :
         \E order \in Orders(groups) : CanPlay(groups, order)

PlayStep ==
    /\ pc = "meld"
    /\ \E groups \in MapInputs(players[cur]) :
         \E order \in Orders(groups) : Play(groups, order)

CanPlayRankStep ==
    /\ pc = "meld"
    /\ \E in \in RankInputs(players[cur]) : CanPlayRank(in[1], in[2])

PlayRankStep ==
    /\ pc = "meld"
    /\ \E in \in RankInputs(players[cur]) : PlayRank(in[1], in[2])

DiscardStep ==
    /\ pc \in {"meld", "discard"}
    /\ \E discard \in DiscardInputs(players[cur]) : Discard(discard)

ScoreStep ==
    /\ pc = "idle"
    /\ Score

Next ==
    \/ TakeTurnStep
    \/ CanPlayStep
    \/ CanPlayRankStep
    \/ PlayStep
    \/ PlayRankStep
    \/ DiscardStep
    \/ ScoreStep

Spec == Init /\ [][Next]_vars

\* the operations applied from the games in mid-play
MidSpec == MidInit /\ [][Next]_vars

\* the games in mid-play whose discard pile is as take_turn leaves it: empty
EmptyPileInit ==
    \E g \in MeldGames \cup ShortGames \cup ScoreGames \cup PromotedGames : Start(g)

\* the operations applied from the games in mid-play with an empty pile
EmptyPileSpec == EmptyPileInit /\ [][Next]_vars

(***************************************************************************)
(* Properties.                                                             *)
(***************************************************************************)

\* enum TurnError
TurnError ==
    { "NotAllCardsMatchRank", "NotAllCardsInHand", "TooManyCardsInBook",
      "TooFewCardsInBook", "TooManyWildsInBook", "NotEnoughMeld",
      "MustKeepOneCardInHand", "CanOnlyPickupBookable",
      "DeckIsLockedNeedTwoInHand", "NotEnoughCards" }

\* the cards of a sequence of groups
RECURSIVE GroupsSize(_)
GroupsSize(groups) ==
    IF groups = << >> THEN 0 ELSE Len(Head(groups)) + GroupsSize(Tail(groups))

\* the cards of the entries of a play area under the given ranks
RECURSIVE AreaSize(_, _)
AreaSize(play_area, ranks) ==
    IF ranks = {} THEN 0
    ELSE LET r == CHOOSE x \in ranks : TRUE
         IN  Len(play_area[r]) + AreaSize(play_area, ranks \ {r})

\* the cards a player holds in hand, foot, play area and books
CardsOf(p) ==
    Len(p.hand) + Len(p.foot.cards) + AreaSize(p.play_area, DOMAIN p.play_area)
        + GroupsSize(p.books)

RECURSIVE CardsOfAll(_)
CardsOfAll(ps) ==
    IF ps = << >> THEN 0 ELSE CardsOf(Head(ps)) + CardsOfAll(Tail(ps))

\* the cards of the draw pile, the discard pile and every player
TotalCards(g) == Len(g.deck) + Len(g.discard_pile) + CardsOfAll(g.players)

\* two play areas hold the same cards under every rank
SameArea(a, b) == \A r \in Rank : Played(a, r) = Played(b, r)

\* two states of a player hold the same hand as a multiset and the same
\* foot, play-area contents and books
SameCards(a, b) ==
    /\ SameBag(a.hand, b.hand)
    /\ a.foot = b.foot
    /\ SameArea(a.play_area, b.play_area)
    /\ a.books = b.books

\* two games hold the same piles and, player by player, the same cards
SameGame(a, b) ==
    /\ a.deck = b.deck
    /\ a.discard_pile = b.discard_pile
    /\ \A i \in 1..Len(a.players) :
         /\ SameCards(a.players[i], b.players[i])
         /\ a.players[i].red_threes = b.players[i].red_threes

\* C1: card conservation. Whenever take_turn has returned Ok, the cards of
\* the draw pile, the discard pile and all hands, foots, play areas and books
\* number 54 * (NumPlayers + 1), the total dealt at the start.
C1_CardConservation ==
    (pc = "idle" /\ ret \notin TurnError) =>
        TotalCards(Game) = 54 * (NumPlayers + 1)

\* C2: play is atomic. When play returns an error the player's hand (as a
\* multiset), foot, play-area contents and books are as before the call.
C2_PlayAtomic ==
    (call.op = "play" /\ ret \in TurnError) =>
        SameCards(players[call.player_idx], pre.players[call.player_idx])

\* C3: pickup rollback. When pickup fails on a discard pile of at least 7
\* cards, the discard pile and the acting player's hand (as a multiset),
\* play area, books and foot are as before the attempt.
\* A pile of 7 cards is met only from the games of PickupGames: take_turn
\* never lays a card on the pile, so from deal pickup returns before this
\* rollback is entered.
C3_PickupRollback ==
    (picked.res \in TurnError /\ Len(picked.before.discard_pile) >= 7) =>
        /\ picked.after.discard_pile = picked.before.discard_pile
        /\ SameCards(picked.after.players[call.player_idx],
                     picked.before.players[call.player_idx])

\* C4: a failed turn leaves the game untouched. When take_turn returns an
\* error, every player's hand, foot, play area, books and red_threes, the
\* deck and the discard pile are as before the call.
C4_FailedTurnUntouched ==
    (call.op = "take_turn" /\ ret \in TurnError) => SameGame(Game, pre)

\* a group under rank r: its cards are wild or of rank r, and the wild
\* cards are fewer than the others
Minority(group, r) ==
    /\ \A i \in 1..Len(group) : is_wild(group[i]) \/ group[i] \in { Regular(r, s) : s \in Suit }
    /\ 2 * Cardinality({ i \in 1..Len(group) : is_wild(group[i]) }) < Len(group)

\* C5: wild minority and book size. Every non-empty play-area entry has
\* between 3 and 6 cards, every book has exactly 7, each card under rank r
\* is wild or Regular(r, _), and in every such group the wild cards are
\* strictly fewer than the non-wild cards.
C5_WildMinority ==
    \A i \in 1..Len(players) :
        /\ \A r \in DOMAIN players[i].play_area :
             players[i].play_area[r] # << >> =>
                 /\ Len(players[i].play_area[r]) \in 3..6
                 /\ Minority(players[i].play_area[r], r)
        /\ \A b \in 1..Len(players[i].books) :
             /\ Len(players[i].books[b]) = 7
             /\ \E r \in Rank : Minority(players[i].books[b], r)

\* a play has left the acting player with an open group and a book, one of
\* them holding a wild card
C5_Witness ==
    /\ call.op \in {"play", "play_rank"}
    /\ ret = "Ok"
    /\ has_melded(players[call.player_idx])
    /\ players[call.player_idx].books # << >>
    /\ \E r \in DOMAIN players[call.player_idx].play_area :
         CountWild(players[call.player_idx].play_area[r]) > 0

\* C6: Threes and wilds never anchor a book. A group whose rank key is Three
\* or Two is rejected, and no player has a card committed in play area or
\* books under rank Three or rank Two.
C6_NoThreeOrTwoBook ==
    /\ (call.op = "play_rank" /\ call.rank \in {"Three", "Two"}) => ret \in TurnError
    /\ \A i \in 1..Len(players) :
         /\ Played(players[i].play_area, "Three") = << >>
         /\ Played(players[i].play_area, "Two") = << >>
         /\ \A b \in 1..Len(players[i].books) :
              \E j \in 1..Len(players[i].books[b]) :
                  /\ ~ is_wild(players[i].books[b][j])
                  /\ players[i].books[b][j].rank # "Three"

\* C7: the meld threshold applies to the first meld only. Once a play by a
\* player has succeeded, no later can_play or play of some groups by that
\* player returns NotEnoughMeld.
C7_ThresholdFirstMeldOnly ==
    ( /\ call.op \in {"can_play", "play"}
      /\ call.groups # EmptyMap
      /\ melded[call.player_idx] ) =>
        ret # "NotEnoughMeld"

\* the points of every card of every group of a map
RECURSIVE MapPoints(_, _)
MapPoints(groups, ranks) ==
    IF ranks = {} THEN 0
    ELSE LET r == CHOOSE x \in ranks : TRUE
         IN  SumPoints(groups[r]) + MapPoints(groups, ranks \ {r})

\* the thresholds of rounds One..Four
Threshold(round_) ==
    CASE round_ = "One" -> 90
      [] round_ = "Two" -> 120
      [] round_ = "Three" -> 150
      [] round_ = "Four" -> 180

\* a player who has committed no card
NeverMelded(p) == p.books = << >> /\ ~ has_melded(p)

\* C8: round meld threshold. For a player who has never melded, can_play
\* returns NotEnoughMeld whenever the points of all cards of all groups are
\* below the round's threshold (90/120/150/180), whatever the groups; at or
\* above the threshold it returns Ok exactly when every group passes
\* can_play_rank.
C8_RoundMeldThreshold ==
    (call.op = "can_play" /\ NeverMelded(players[call.player_idx])) =>
        IF MapPoints(call.groups, DOMAIN call.groups) < Threshold(call.round)
        THEN ret = "NotEnoughMeld"
        ELSE ret = "Ok" <=>
                 \A r \in DOMAIN call.groups :
                     can_play_rank(players[call.player_idx], r, call.groups[r]) = "Ok"

\* a first meld worth exactly the threshold has been accepted
C8_Witness ==
    /\ call.op = "can_play"
    /\ NeverMelded(players[call.player_idx])
    /\ MapPoints(call.groups, DOMAIN call.groups) = Threshold(call.round)
    /\ ret = "Ok"

\* play_rank is called by a player with no foot with cards that pass
\* can_play_rank and leave the hand with at most `left` cards
LastCards(p, rank, cards, left) ==
    /\ ~ p.foot.some
    /\ can_play_rank(p, rank, cards) = "Ok"
    /\ Len(p.hand) - Len(cards) <= left

\* C9: go-out gating with rollback. With no foot and without a clean and a
\* dirty book, a play_rank whose cards pass can_play_rank and would empty
\* the hand fails with MustKeepOneCardInHand; afterwards the hand holds the
\* same multiset as before and no card has been added to play area or books.
C9_GoOutGating ==
    ( /\ call.op = "play_rank"
      /\ LastCards(pre.players[call.player_idx], call.rank, call.cards, 0)
      /\ ~ can_go_out(pre.players[call.player_idx]) ) =>
        /\ ret = "MustKeepOneCardInHand"
        /\ SameCards(players[call.player_idx], pre.players[call.player_idx])

\* such a play_rank has been refused
C9_Witness ==
    /\ call.op = "play_rank"
    /\ LastCards(pre.players[call.player_idx], call.rank, call.cards, 0)
    /\ ~ can_go_out(pre.players[call.player_idx])
    /\ ret = "MustKeepOneCardInHand"

\* C10 as stated: with no foot, a play_rank whose cards pass can_play_rank
\* and would leave the hand with 0 or 1 cards succeeds when can_go_out holds
\* at the time of the call and fails with MustKeepOneCardInHand otherwise.
C10_GoOutPermits ==
    ( /\ call.op = "play_rank"
      /\ LastCards(pre.players[call.player_idx], call.rank, call.cards, 1) ) =>
        ret = IF can_go_out(pre.players[call.player_idx])
              THEN "Ok" ELSE "MustKeepOneCardInHand"

\* C10 amended: such a play_rank succeeds when can_go_out holds at the time
\* of the call and exactly one card stays in the hand; it fails with
\* MustKeepOneCardInHand when can_go_out does not hold, and also when the
\* hand would become empty, whether or not can_go_out holds.
C10_GoOutKeepsOne ==
    ( /\ call.op = "play_rank"
      /\ LastCards(pre.players[call.player_idx], call.rank, call.cards, 1) ) =>
        ret = IF /\ can_go_out(pre.players[call.player_idx])
                 /\ Len(pre.players[call.player_idx].hand) - Len(call.cards) = 1
              THEN "Ok" ELSE "MustKeepOneCardInHand"

\* a player who can go out has been refused a play_rank that would have
\* emptied the hand
C10_Witness ==
    /\ call.op = "play_rank"
    /\ LastCards(pre.players[call.player_idx], call.rank, call.cards, 0)
    /\ can_go_out(pre.players[call.player_idx])
    /\ ret = "MustKeepOneCardInHand"

\* C11: discard step. When take_turn returns Ok, the card accepted from the
\* discard strategy has left the acting player's hand and lies on top of the
\* discard pile, which is one card longer than before the step.
C11_DiscardPushed ==
    call.op = "discard" =>
        /\ CountOf(pre.players[call.player_idx].hand, call.discard) > 0
        /\ Len(discard_pile) = Len(pre.discard_pile) + 1
        /\ discard_pile[Len(discard_pile)] = call.discard

\* the red Threes of a sequence of cards
RedThreeCount(cards) ==
    Cardinality({ i \in 1..Len(cards) :
        cards[i] \in { Regular("Three", "Heart"), Regular("Three", "Diamond") } })

\* the n cards on top of a deck
TopCards(d, n) == SubSeq(d, Len(d) - n + 1, Len(d))

\* what a resolve_red_threes that returned Ok has done for player i: the
\* deck has given its n top cards, n being the red Threes of the hand
\* before and of those cards
Resolved(before, after, i) ==
    /\ RedThreeCount(after.players[i].hand) = 0
    /\ Len(after.players[i].hand) = Len(before.players[i].hand)
    /\ after.players[i].red_threes - before.players[i].red_threes
         = Len(before.deck) - Len(after.deck)
    /\ after.deck = SubSeq(before.deck, 1, Len(after.deck))
    /\ Len(before.deck) - Len(after.deck)
         = RedThreeCount(before.players[i].hand)
           + RedThreeCount(TopCards(before.deck, Len(before.deck) - Len(after.deck)))

\* C12: red-three resolution. Whenever the resolve_red_threes that opens
\* take_turn returns Ok, the hand holds no red Three and is as long as
\* before, red_threes has grown by exactly the red Threes removed, those
\* drawn as replacements included, and the deck has shrunk by that number;
\* and a take_turn that gets to its meld strategy leaves no red Three in the
\* hand.
C12_RedThreesResolved ==
    call.op = "take_turn" =>
        /\ resolve_red_threes(pre, call.player_idx).res = "Ok" =>
               Resolved(pre, resolve_red_threes(pre, call.player_idx).g,
                        call.player_idx)
        /\ ret = "InMeld" => RedThreeCount(players[call.player_idx].hand) = 0

\* a take_turn has resolved a red Three of the hand whose replacement was a
\* red Three too
C12_Witness ==
    /\ call.op = "take_turn"
    /\ ret = "InMeld"
    /\ RedThreeCount(pre.players[call.player_idx].hand) > 0
    /\ resolve_red_threes(pre, call.player_idx).g.players[call.player_idx].red_threes
         > pre.players[call.player_idx].red_threes
           + RedThreeCount(pre.players[call.player_idx].hand)

\* C13: going out requires a clean and a dirty book. Whenever take_turn
\* returns Out, the acting player has at least one clean book and at least
\* one dirty book.
C13_OutNeedsBooks ==
    (call.op = "discard" /\ ret = "Out") =>
        /\ clean_books(players[call.player_idx]) >= 1
        /\ dirty_books(players[call.player_idx]) >= 1

\* a player has gone out in a turn in which the meld strategy played cards
C13_Witness ==
    /\ call.op = "discard"
    /\ ret = "Out"
    /\ calls > 0
    /\ players[call.player_idx] # pre.players[call.player_idx]
    /\ can_go_out(players[call.player_idx])
    /\ has_melded(players[call.player_idx])

\* the turn stands where a turn that chose Draw stands: same result, same
\* piles, same cards for every player
AsIfDrawn(drawn) ==
    /\ ret = IF drawn.res = "Ok" THEN "InMeld" ELSE drawn.res
    /\ SameGame(Game, drawn.g)

\* C14: pickup falls back to Draw. When the draw strategy chooses Pickup and
\* pickup fails, the turn continues exactly as if Draw had been chosen from
\* the state before the pickup: the discard pile is unchanged, the top 2
\* deck cards join the hand, take_turn fails at the draw step, with
\* NotEnoughCards, exactly when the deck holds fewer than 2 cards, and a
\* failure with 2 cards drawn comes from the red Threes resolved afterwards.
C14_PickupFallsBack ==
    (call.op = "take_turn" /\ picked.res \in TurnError) =>
        /\ discard_pile = pre.discard_pile
        /\ AsIfDrawn(TurnHead(pre, call.player_idx, Draw, << >>))
        /\ Len(picked.before.deck) < 2 =>
             /\ ret = "NotEnoughCards"
             /\ SameGame(Game, picked.before)
        /\ Len(picked.before.deck) >= 2 =>
             /\ Len(deck) <= Len(picked.before.deck) - 2
             /\ ret = "InMeld" =>
                  Len(players[call.player_idx].hand)
                    = Len(picked.before.players[call.player_idx].hand) + 2
             /\ ret # "InMeld" =>
                  players[call.player_idx].red_threes
                    > picked.before.players[call.player_idx].red_threes

C14_Witness ==
    /\ call.op = "take_turn"
    /\ call.draw_action.kind = "Pickup"
    /\ picked.res \in TurnError
    /\ Len(picked.before.deck) < 2
    /\ picked.before.players[call.player_idx].red_threes
         > pre.players[call.player_idx].red_threes
    /\ ret = "NotEnoughCards"

\* the cards of a map of groups, rank by rank
RECURSIVE MapCards(_, _)
MapCards(groups, ranks) ==
    IF ranks = {} THEN << >>
    ELSE LET r == CHOOSE x \in ranks : TRUE
         IN  groups[r] \o MapCards(groups, ranks \ {r})

\* the cards of a sequence of groups
RECURSIVE Flatten(_)
Flatten(groups) ==
    IF groups = << >> THEN << >> ELSE Head(groups) \o Flatten(Tail(groups))

\* the cards a player has committed to play area and books
Committed(p) == MapCards(p.play_area, DOMAIN p.play_area) \o Flatten(p.books)

\* the groups of a player the top card may have been committed to: the entry
\* under its rank, and the books
GroupsUnder(p, top_card) ==
    { Played(p.play_area, top_card.rank) } \cup { p.books[b] : b \in 1..Len(p.books) }

\* what a pickup that returned Ok has done for player i with the groups of
\* the draw strategy
PickedUp(before, after, i, groups) ==
    /\ SameBag(Committed(after.players[i]),
               Committed(before.players[i]) \o MapCards(groups, DOMAIN groups)
                   \o << before.discard_pile[Len(before.discard_pile)] >>)
    /\ \E group \in GroupsUnder(after.players[i],
                                before.discard_pile[Len(before.discard_pile)]) :
           /\ group # << >>
           /\ group[Len(group)] = before.discard_pile[Len(before.discard_pile)]
    /\ SameBag(after.players[i].hand \o after.players[i].foot.cards
                   \o MapCards(groups, DOMAIN groups),
               before.players[i].hand \o before.players[i].foot.cards
                   \o SubSeq(before.discard_pile, Len(before.discard_pile) - 6,
                             Len(before.discard_pile) - 1))
    /\ after.discard_pile = SubSeq(before.discard_pile, 1, Len(before.discard_pile) - 7)

\* C15: successful pickup. When pickup returns Ok on a discard pile of at
\* least 7 cards, the former top card and all cards of the meld groups are
\* committed to play area or books, the top card under its own rank, the 6
\* cards that lay under the top card are in the player's hand, and the
\* discard pile is exactly 7 cards shorter.
C15_PickupSucceeds ==
    (picked.res = "Ok" /\ Len(picked.before.discard_pile) >= 7) =>
        PickedUp(picked.before, picked.after, call.player_idx, call.draw_action.groups)

\* a pickup with a group holding a wild card has succeeded
C15_Witness ==
    /\ picked.res = "Ok"
    /\ Len(picked.before.discard_pile) >= 7
    /\ \E r \in DOMAIN call.draw_action.groups :
           CountWild(call.draw_action.groups[r]) > 0

\* the classes of completed books: no wild card and not of Sevens, some
\* wild card, Sevens only
CleanBooks(p) ==
    { b \in 1..Len(p.books) :
        /\ \A i \in 1..Len(p.books[b]) : ~ is_wild(p.books[b][i])
        /\ \E i \in 1..Len(p.books[b]) : p.books[b][i].rank # "Seven" }

DirtyBooks(p) ==
    { b \in 1..Len(p.books) : \E i \in 1..Len(p.books[b]) : is_wild(p.books[b][i]) }

SevenBooks(p) ==
    { b \in 1..Len(p.books) :
        \A i \in 1..Len(p.books[b]) : p.books[b][i].rank = "Seven" }

\* the score the rules give a player
ExpectedScore(p) ==
    500 * Cardinality(CleanBooks(p)) + 300 * Cardinality(DirtyBooks(p))
    + 1500 * Cardinality(SevenBooks(p))
    + SumPoints(Committed(p)) + 100 * p.red_threes
    - SumPoints(p.hand \o p.foot.cards)

\* C16: score() returns for each player 500 * clean books + 300 * dirty
\* books + 1500 * seven books + the points of the cards in books and play
\* area + 100 * red_threes - the points of the cards in hand and foot; every
\* book is counted in exactly one of the three classes; and the call changes
\* no part of the Game.
C16_Score ==
    call.op = "score" =>
        /\ Game = pre
        /\ DOMAIN call.returned = 1..Len(players)
        /\ \A i \in 1..Len(players) :
             /\ call.returned[i] = ExpectedScore(players[i])
             /\ clean_books(players[i]) = Cardinality(CleanBooks(players[i]))
             /\ dirty_books(players[i]) = Cardinality(DirtyBooks(players[i]))
             /\ seven_books(players[i]) = Cardinality(SevenBooks(players[i]))
             /\ clean_books(players[i]) + dirty_books(players[i])
                  + seven_books(players[i]) = Len(players[i].books)

\* the scores have been taken of a player with a book of each class, cards
\* in play, a banked red Three, a hand and a foot
C16_Witness ==
    /\ call.op = "score"
    /\ \E i \in 1..Len(players) :
         /\ CleanBooks(players[i]) # {}
         /\ DirtyBooks(players[i]) # {}
         /\ SevenBooks(players[i]) # {}
         /\ has_melded(players[i])
         /\ players[i].red_threes > 0
         /\ players[i].hand # << >>
         /\ players[i].foot.some

\* the first rule of can_play_rank a group violates, taking the rules in
\* their order; few says whether the lower bound on the size applies
FirstViolated(p, rank, cards, few) ==
    IF \E i \in 1..Len(cards) :
           ~ is_wild(cards[i]) /\ cards[i] \notin { Regular(rank, s) : s \in Suit }
    THEN "NotAllCardsMatchRank"
    ELSE IF \E i \in 1..Len(cards) : CountOf(cards, cards[i]) > CountOf(p.hand, cards[i])
    THEN "NotAllCardsInHand"
    ELSE IF Len(Played(p.play_area, rank) \o cards) > 7 THEN "TooManyCardsInBook"
    ELSE IF few /\ Len(Played(p.play_area, rank) \o cards) < 3 THEN "TooFewCardsInBook"
    ELSE IF 2 * CountWild(Played(p.play_area, rank) \o cards)
              >= Len(Played(p.play_area, rank) \o cards)
    THEN "TooManyWildsInBook"
    ELSE "Ok"

\* C17 as stated: can_play_rank mutates nothing and returns the first
\* violated rule in the order NotAllCardsMatchRank, NotAllCardsInHand,
\* TooManyCardsInBook, TooFewCardsInBook, TooManyWildsInBook, the lower bound
\* of 3 cards being required only when play_area[rank] does not yet exist;
\* it returns Ok exactly when no rule is violated.
C17_RuleOrder ==
    call.op = "can_play_rank" =>
        /\ Game = pre
        /\ ret = FirstViolated(players[call.player_idx], call.rank, call.cards,
                               call.rank \notin DOMAIN players[call.player_idx].play_area)

\* C17 amended: the same, the lower bound of 3 cards on existing + new being
\* required whether or not play_area[rank] exists.
C17_RuleOrderAlwaysThree ==
    call.op = "can_play_rank" =>
        /\ Game = pre
        /\ ret = FirstViolated(players[call.player_idx], call.rank, call.cards, TRUE)

\* two cards of the rank have been refused as too few for an entry that
\* exists and is empty
C17_Witness ==
    /\ call.op = "can_play_rank"
    /\ call.rank \in DOMAIN players[call.player_idx].play_area
    /\ players[call.player_idx].play_area[call.rank] = << >>
    /\ Len(call.cards) = 2
    /\ ret = "TooFewCardsInBook"

\* the foot check of take_turn as seen from the accepted discard: Out
\* exactly for a last card with no foot left, and the foot promoted to the
\* hand with the result Over for a last card with a foot
FootCheck(before, after, result) ==
    /\ (result = "Out") <=> (Len(before.hand) = 1 /\ ~ before.foot.some)
    /\ result \in {"Out", "Over"}
    /\ (Len(before.hand) = 1 /\ before.foot.some) =>
         /\ after.hand = before.foot.cards
         /\ after.foot = NoFoot
         /\ result = "Over"
    /\ Len(before.hand) > 1 =>
         /\ Len(after.hand) = Len(before.hand) - 1
         /\ after.foot = before.foot

\* no step gives a player a foot again
FootStaysNone ==
    \A i \in 1..Len(players) : ~ players[i].foot.some => ~ players'[i].foot.some

\* C18: turn result and foot promotion. take_turn returns Out exactly when,
\* after the discard, the acting player's hand is empty and the foot is
\* already None; when the hand is empty and a foot remains, the foot becomes
\* the hand, the foot becomes None and the result is Over; no other step
\* of the turn returns Out; and a foot that is None stays None in every
\* later state.
C18_FootPromotion ==
    /\ [](call.op = "discard" =>
             FootCheck(pre.players[call.player_idx], players[call.player_idx], ret))
    /\ [](ret = "Out" => call.op = "discard")
    /\ [][FootStaysNone]_vars

C18_Witness ==
    /\ call.op = "discard"
    /\ ret = "Over"
    /\ Len(pre.players[call.player_idx].hand) = 1
    /\ pre.players[call.player_idx].foot.some
    /\ players[call.player_idx].hand = pre.players[call.player_idx].foot.cards
    /\ players[call.player_idx].hand # << >>
    /\ ~ players[call.player_idx].foot.some

\* C19: a legal discard always exists. Whenever the meld strategy is running
\* or has returned, so each time the discard strategy is invoked, the acting
\* player's hand is non-empty; in particular no call of play or play_rank,
\* accepted or refused, leaves the hand empty, so a discard strategy that
\* names a card of the hand ends the discard loop.
C19_LegalDiscardExists ==
    pc \in {"meld", "discard"} =>
        /\ players[cur].hand # << >>
        /\ DiscardInputs(players[cur]) # {}
        /\ \A discard \in DiscardInputs(players[cur]) :
               Position(players[cur].hand, discard) # 0

C19_Witness ==
    /\ pc = "meld"
    /\ call.op = "play_rank"
    /\ ret = "Ok"
    /\ Len(call.cards) = Len(pre.players[cur].hand)
    /\ pre.players[cur].foot.some
    /\ players[cur].hand = pre.players[cur].foot.cards

\* a take_turn whose draw strategy chose Pickup and that got as far as the
\* draw step
PickupChosen ==
    /\ call.op = "take_turn"
    /\ call.draw_action.kind = "Pickup"
    /\ picked.res # "NotCalled"

\* C20: from Game::deal, through any sequence of take_turn calls, the discard
\* pile is empty and locked is false; so every Pickup a draw strategy
\* chooses fails with NotEnoughCards inside pickup, which changes nothing,
\* and the turn goes on as a turn that chose Draw: the hand is 2 cards longer
\* when the meld strategy is called.
C20_PileStaysEmpty ==
    /\ discard_pile = << >>
    /\ ~ locked
    /\ PickupChosen =>
         /\ picked.res = "NotEnoughCards"
         /\ picked.after = picked.before
         /\ AsIfDrawn(TurnHead(pre, call.player_idx, Draw, << >>))
         /\ ret = "InMeld" =>
              Len(players[call.player_idx].hand)
                = Len(pre.players[call.player_idx].hand) + 2

C20_Witness ==
    /\ PickupChosen
    /\ call.draw_action.groups # EmptyMap
    /\ picked.res = "NotEnoughCards"
    /\ ret = "InMeld"
    /\ Len(deck) = Len(pre.deck) - 2 - (players[call.player_idx].red_threes
                                         - pre.players[call.player_idx].red_threes)

====
